---- MODULE Spec2Model ----
(***************************************************************************)
(* Request pipeline of the Springshare -> OCLC WorldCat Discovery adapter: *)
(* the /search handler (src/app.py), search_worldcat and its validation    *)
(* helpers (src/oclc/discovery.py), the cached OAuth2 token                *)
(* (src/oclc/auth.py) and the result formatter                             *)
(* (src/springshare/formatter.py).                                         *)
(*                                                                         *)
(* Text is a sequence of symbols.  A symbol is one character, except for   *)
(* three chunks that stand for a fixed run of characters:                  *)
(*   "W"    a run of 499 word characters (letter a),                       *)
(*   "Q"    the 13 characters QUOTED_PHRASE,                               *)
(*   "%21"  the 3 characters of a percent-encoded exclamation mark.        *)
(***************************************************************************)
EXTENDS Integers, Sequences, FiniteSets, TLC

\* ------------------------------------------------------------------ bounds

\* longest query text, in symbols, of the query specification
MaxQueryLen == 4
\* concurrent callers of get_token in the token specification
NumCallers == 2
\* the clock runs from 0 to MaxNow
MaxNow == 2
\* token-endpoint POSTs issued in one behaviour
MaxPosts == 2

\* longest sort parameter, in symbols
MaxSortLen == 3

\* longest referrer, in symbols
MaxReferrerLen == 3

\* most brief records in an upstream answer
MaxRecords == 3

\* longest varying part of a title, in symbols
MaxTitleLen == 4
MaxCleanLen == 3

\* ------------------------------------------------------- program constants

MAX_QUERY_LENGTH == 500
TOKEN_SKEW == 300
MAX_OFFSET == 10000
FALLBACK_MAX_RESULTS == 50
FALLBACK_DEFAULT_RESULTS == 10
MAX_TITLE_WORDS == 20
RETRY_TOTAL == 3

\* Python values that may be None are wrapped: None, an int, a text
None == [t |-> "None"]
IntV(n) == [t |-> "int", v |-> n]
Text(s) == [t |-> "str", v |-> s]
ListV(s) == [t |-> "list", v |-> s]
\* a string that int() rejects
NaN == [t |-> "nan"]

\* --------------------------------------------------------------------- text

QUOTE == "\""

\* len() of one symbol
Width(c) ==
  CASE c = "W" -> 499
    [] c = "Q" -> 13
    [] c = "%21" -> 3
    [] OTHER -> 1

RECURSIVE PyLen(_)
\* len(text)
PyLen(s) == IF s = <<>> THEN 0 ELSE Width(Head(s)) + PyLen(Tail(s))

\* str.isspace() of one symbol: the space and the tab
IsSpace(c) == c \in {" ", "\t"}

RECURSIVE LStrip(_)
LStrip(s) == IF s # <<>> /\ IsSpace(Head(s)) THEN LStrip(Tail(s)) ELSE s

RECURSIVE RStrip(_)
RStrip(s) ==
  IF s # <<>> /\ IsSpace(s[Len(s)]) THEN RStrip(SubSeq(s, 1, Len(s) - 1)) ELSE s

\* str.strip()
Strip(s) == RStrip(LStrip(s))

RECURSIVE Words(_, _)
\* str.split(): the maximal runs of non-whitespace, cur being the run under way
Words(s, cur) ==
  IF s = <<>> THEN (IF cur = <<>> THEN <<>> ELSE <<cur>>)
  ELSE IF IsSpace(Head(s))
       THEN (IF cur = <<>> THEN <<>> ELSE <<cur>>) \o Words(Tail(s), <<>>)
       ELSE Words(Tail(s), Append(cur, Head(s)))

RECURSIVE JoinSpace(_)
\* ' '.join(words)
JoinSpace(ws) ==
  IF ws = <<>> THEN <<>>
  ELSE IF Len(ws) = 1 THEN ws[1]
  ELSE ws[1] \o <<" ">> \o JoinSpace(Tail(ws))

\* ' '.join(text.split())
NormalizeSpace(s) == JoinSpace(Words(s, <<>>))

\* urllib.parse.unquote_plus: '+' becomes a space, %21 decodes to '!'
unquote_plus(s) ==
  [i \in 1..Len(s) |->
     IF s[i] = "+" THEN " " ELSE IF s[i] = "%21" THEN "!" ELSE s[i]]

\* query.replace('+', ' ')
ReplacePlus(s) == [i \in 1..Len(s) |-> IF s[i] = "+" THEN " " ELSE s[i]]

RECURSIVE NextQuote(_, _)
\* index of the first double quote at or after i, 0 when there is none
NextQuote(s, i) ==
  IF i > Len(s) THEN 0 ELSE IF s[i] = QUOTE THEN i ELSE NextQuote(s, i + 1)

RECURSIVE QuotedSpans(_, _)
\* the non-overlapping leftmost matches of "[^"]+" from index i on
QuotedSpans(s, i) ==
  IF i > Len(s) THEN <<>>
  ELSE IF s[i] # QUOTE THEN QuotedSpans(s, i + 1)
  ELSE LET j == NextQuote(s, i + 1)
       IN IF j = 0 THEN <<>>
          ELSE IF j = i + 1 THEN QuotedSpans(s, i + 1)
          ELSE <<(<<i, j>>)>> \o QuotedSpans(s, j + 1)

\* re.findall(r'"[^"]+"', query)
FindQuoted(s) ==
  LET spans == QuotedSpans(s, 1)
  IN [k \in 1..Len(spans) |-> SubSeq(s, spans[k][1], spans[k][2])]

RECURSIVE MaskFrom(_, _, _)
MaskFrom(s, i, spans) ==
  IF i > Len(s) THEN <<>>
  ELSE IF spans # <<>> /\ spans[1][1] = i
       THEN <<"Q">> \o MaskFrom(s, spans[1][2] + 1, Tail(spans))
       ELSE <<s[i]>> \o MaskFrom(s, i + 1, spans)

\* re.sub(r'"[^"]+"', 'QUOTED_PHRASE', query)
MaskQuoted(s) == MaskFrom(s, 1, QuotedSpans(s, 1))

\* variant: the cleaning pattern keeps word characters and whitespace only
Allowed_WordsOnly(c) == c \in {"a", "W", "Q", " ", "\t"}

\* [\w\s\-'...@\./+]: the symbols the cleaning pattern keeps
Allowed(c) == c \in {"a", "W", "Q", " ", "\t", "+", "-", "'", "@", ".", "/"}

\* re.sub(r'[^\w\s\-\'...@\./+]', ' ', temp_query)
CleanChars(s) == [i \in 1..Len(s) |-> IF Allowed(s[i]) THEN s[i] ELSE " "]

RECURSIVE IndexOf(_, _, _)
IndexOf(s, c, i) ==
  IF i > Len(s) THEN 0 ELSE IF s[i] = c THEN i ELSE IndexOf(s, c, i + 1)

\* temp_query.replace('QUOTED_PHRASE', phrase, 1)
ReplaceFirstMask(s, phrase) ==
  LET k == IndexOf(s, "Q", 1)
  IN IF k = 0 THEN s
     ELSE SubSeq(s, 1, k - 1) \o phrase \o SubSeq(s, k + 1, Len(s))

RECURSIVE Reinsert(_, _)
\* for phrase in quoted_phrases: temp_query = temp_query.replace(..., phrase, 1)
Reinsert(s, phrases) ==
  IF phrases = <<>> THEN s
  ELSE Reinsert(ReplaceFirstMask(s, Head(phrases)), Tail(phrases))

Ok(v) == [ok |-> TRUE, value |-> v]
Err(kind, msg) == [ok |-> FALSE, kind |-> kind, error |-> msg]

MsgTooLong == "Query exceeds maximum length of 500 characters"

\* variant: no length limit
TooLong_Never(query) == FALSE

\* len(query) > MAX_QUERY_LENGTH
TooLong(query) == PyLen(query) > MAX_QUERY_LENGTH

\* sanitize_query: the cleaned text, or the ValueError it raises
sanitize_query(query) ==
  IF TooLong(query) THEN Err("ValueError", MsgTooLong)
  ELSE LET q1 == ReplacePlus(Strip(unquote_plus(query)))
           quoted_phrases == FindQuoted(q1)
           t1 == CleanChars(MaskQuoted(q1))
           t2 == NormalizeSpace(Reinsert(t1, quoted_phrases))
       IN IF t2 = <<>> THEN Err("ValueError", "Query is empty after sanitization") ELSE Ok(t2)

\* ---------------------------------------------------------- configuration

\* Config(): the values _load_configuration leaves on the object.  With
\* partial = TRUE an integer setting failed to parse: the two page sizes fall
\* back to 50 and 10 and no other attribute was ever set.
CfgStandard ==
  [partial |-> FALSE,
   MAX_RESULTS_PER_PAGE |-> 50, DEFAULT_RESULTS_PER_PAGE |-> 10,
   DEFAULT_LIBRARY |-> "SZH", DEFAULT_SITE |-> "worldcat",
   LIBRARY_MAPPINGS |-> << [domain |-> <<"j", "u">>, symbol |-> "TJC"],
                           [domain |-> <<"u">>, symbol |-> "TKN"] >>,
   SITE_MAPPINGS |-> ("TJC" :> "johnson") @@ ("TKN" :> ""),
   URL_REPLACE_CHARS |-> {"-"}]

\* DEFAULT_RESULTS_PER_PAGE set above MAX_RESULTS_PER_PAGE in the environment
CfgSmallMax == [CfgStandard EXCEPT !.MAX_RESULTS_PER_PAGE = 5]

CfgPartial ==
  [partial |-> TRUE,
   MAX_RESULTS_PER_PAGE |-> FALLBACK_MAX_RESULTS,
   DEFAULT_RESULTS_PER_PAGE |-> FALLBACK_DEFAULT_RESULTS,
   DEFAULT_LIBRARY |-> "unset", DEFAULT_SITE |-> "unset",
   LIBRARY_MAPPINGS |-> <<>>,
   SITE_MAPPINGS |-> [s \in {} |-> "unset"],
   URL_REPLACE_CHARS |-> {}]

Configs == {CfgStandard, CfgSmallMax, CfgPartial}

\* --------------------------------------------------------------------- sort

VALID_SORT_OPTIONS ==
  {"library", "recency", "bestMatch", "creator", "publicationDateAsc",
   "publicationDateDesc", "mostWidelyHeld", "title"}

NoEntry == "no entry"

\* variant: a table that gives 'title' for both directions of title
sort_mappings_TitleOnly(field, direction) ==
  IF field = <<"title">> /\ direction \in {<<"asc">>, <<"desc">>} THEN "title"
  ELSE IF field = <<"relevancy">> /\ direction = <<"desc">> THEN "bestMatch"
  ELSE NoEntry

\* sort_mappings: field -> direction -> upstream value
sort_mappings(field, direction) ==
  CASE field = <<"relevancy">> /\ direction = <<"desc">> -> "bestMatch"
    [] field = <<"title">> /\ direction = <<"asc">> -> "title"
    [] field = <<"title">> /\ direction = <<"desc">> -> "title desc"
    [] field = <<"date">> /\ direction = <<"asc">> -> "publicationDateAsc"
    [] field = <<"date">> /\ direction = <<"desc">> -> "publicationDateDesc"
    [] field = <<"library">> /\ direction = <<"asc">> -> "library"
    [] field = <<"creator">> /\ direction = <<"asc">> -> "creator"
    [] field = <<"popularity">> /\ direction = <<"desc">> -> "mostWidelyHeld"
    [] OTHER -> NoEntry

SortFields ==
  {<<"relevancy">>, <<"title">>, <<"date">>, <<"library">>, <<"creator">>,
   <<"popularity">>}

RECURSIVE SplitUnderscore(_, _)
\* sort_param.split('_'), cur being the part under way
SplitUnderscore(s, cur) ==
  IF s = <<>> THEN <<cur>>
  ELSE IF Head(s) = "_" THEN <<cur>> \o SplitUnderscore(Tail(s), <<>>)
       ELSE SplitUnderscore(Tail(s), Append(cur, Head(s)))

\* not sort_param
Falsy(x) == x = None \/ x = Text(<<>>)

\* map_springshare_sort: the upstream orderBy value, or the ValueError raised
map_springshare_sort(sort_param) ==
  IF Falsy(sort_param) \/ sort_param = Text(<<"_">>) THEN Ok("bestMatch")
  ELSE IF sort_param = Text(<<"relevancy", "_", "desc">>) THEN Ok("bestMatch")
  ELSE LET parts == SplitUnderscore(sort_param.v, <<>>)
       IN IF Len(parts) # 2 THEN Err("ValueError", "Invalid sort format")
          ELSE LET field == parts[1]
                   direction == parts[2]
               IN IF field \notin SortFields
                  THEN Err("ValueError", "Invalid sort field")
                  ELSE IF sort_mappings(field, direction) = NoEntry
                  THEN Err("ValueError", "Invalid direction for field")
                  ELSE Ok(sort_mappings(field, direction))

\* variant: validate_sort without the check against VALID_SORT_OPTIONS
validate_sort_Lenient(sort) ==
  LET mapped_sort == map_springshare_sort(sort)
  IN IF ~mapped_sort.ok THEN mapped_sort ELSE Ok(TRUE)

\* validate_sort: True, or the ValueError raised
validate_sort(sort) ==
  LET mapped_sort == map_springshare_sort(sort)
  IN IF ~mapped_sort.ok THEN mapped_sort
     ELSE IF mapped_sort.value \notin VALID_SORT_OPTIONS
          THEN Err("ValueError", "Invalid sort option. Must be one of: ...")
          ELSE Ok(TRUE)

\* --------------------------------------------------------------- pagination

MsgNotInt == "Page and limit must be valid integers"
MsgPage == "Page number must be greater than 0"
MsgOffset == "Requested page exceeds maximum offset of 10000"

\* calculate_offset
calculate_offset(page, limit) == ((page - 1) * limit) + 1

\* the limit validate_pagination settles on, or the ValueError it raises
ValidatedLimit(limit, config) ==
  IF limit = None THEN Ok(config.DEFAULT_RESULTS_PER_PAGE)
  ELSE IF limit.v < 1 THEN Err("ValueError", "Results per page must be greater than 0")
  ELSE IF limit.v > config.MAX_RESULTS_PER_PAGE
       THEN Err("ValueError", "Results per page cannot exceed MAX_RESULTS_PER_PAGE")
  ELSE Ok(limit.v)

\* variant: no maximum offset
validate_pagination_NoOffsetCheck(page, limit, config) ==
  IF page = None \/ page = NaN \/ limit = NaN THEN Err("ValueError", MsgNotInt)
  ELSE IF page.v < 1 THEN Err("ValueError", MsgPage)
  ELSE LET l == ValidatedLimit(limit, config)
       IN IF ~l.ok THEN l ELSE Ok([page |-> page.v, limit |-> l.value])

\* validate_pagination: (page, limit), or the ValueError it raises
validate_pagination(page, limit, config) ==
  IF page = None \/ page = NaN \/ limit = NaN THEN Err("ValueError", MsgNotInt)
  ELSE IF page.v < 1 THEN Err("ValueError", MsgPage)
  ELSE LET l == ValidatedLimit(limit, config)
       IN IF ~l.ok THEN l
          ELSE IF ((page.v - 1) * l.value) + 1 > MAX_OFFSET
               THEN Err("ValueError", MsgOffset)
               ELSE Ok([page |-> page.v, limit |-> l.value])

\* ------------------------------------------------------------ library symbol

\* str.lower() on the letters of a referrer
Lower(s) ==
  [i \in 1..Len(s) |->
     CASE s[i] = "J" -> "j" [] s[i] = "U" -> "u" [] s[i] = "X" -> "x"
       [] OTHER -> s[i]]

\* needle in hay
Contains(hay, needle) ==
  \E i \in 1..(Len(hay) - Len(needle) + 1) :
     SubSeq(hay, i, i + Len(needle) - 1) = needle

\* the iterations of the lookup loop at which the wall clock may be found
\* more than `timeout` seconds past the start: 0 for never
StallPoints(config) == 0..Len(config.LIBRARY_MAPPINGS)

RECURSIVE FirstMatch(_, _, _, _)
\* the loop over config.LIBRARY_MAPPINGS.items(); stall is the number of the
\* iteration, counted from the current one, that finds the time used up
FirstMatch(mappings, referrer, default, stall) ==
  IF mappings = <<>> THEN default
  ELSE IF stall = 1 THEN default
  ELSE IF Contains(Lower(referrer), Lower(Head(mappings).domain))
       THEN Head(mappings).symbol
       ELSE FirstMatch(Tail(mappings), referrer, default,
                       IF stall = 0 THEN 0 ELSE stall - 1)

\* get_library_symbol: the symbol, or the AttributeError that reading an unset
\* attribute raises (again in the except branch, so it leaves the function)
get_library_symbol(referrer, config, stall) ==
  IF config.partial THEN Err("AttributeError", "_default_library")
  ELSE IF Falsy(referrer) THEN Ok(config.DEFAULT_LIBRARY)
  ELSE Ok(FirstMatch(config.LIBRARY_MAPPINGS, referrer.v, config.DEFAULT_LIBRARY,
                     stall))

\* ---------------------------------------------------------------- formatter

\* title.replace(char, ' ') for every char of config.URL_REPLACE_CHARS
ReplaceChars(s, chars) == [i \in 1..Len(s) |-> IF s[i] \in chars THEN " " ELSE s[i]]

\* variant: no cap on the number of words
FirstWords_NoCap(ws) == ws

\* words[:20]
FirstWords(ws) == IF Len(ws) > MAX_TITLE_WORDS THEN SubSeq(ws, 1, MAX_TITLE_WORDS) ELSE ws

\* process_title_for_url
process_title_for_url(title, config) ==
  IF Falsy(title) THEN <<>>
  ELSE JoinSpace(FirstWords(Words(ReplaceChars(title.v, config.URL_REPLACE_CHARS), <<>>)))

\* variant: every library is sent to the default site
get_discovery_site_DefaultOnly(library_symbol, config) == config.DEFAULT_SITE

\* get_discovery_site
get_discovery_site(library_symbol, config) ==
  IF library_symbol = "" THEN config.DEFAULT_SITE
  ELSE IF library_symbol \in DOMAIN config.SITE_MAPPINGS
          /\ config.SITE_MAPPINGS[library_symbol] # ""
       THEN config.SITE_MAPPINGS[library_symbol]
       ELSE config.DEFAULT_SITE

\* urllib.parse.quote, symbol by symbol
quote(s) ==
  [i \in 1..Len(s) |->
     CASE s[i] = " " -> "%20"
       [] s[i] = "ti:" -> "ti%3A"
       [] s[i] = "!" -> "%21"
       [] s[i] = QUOTE -> "%22"
       [] OTHER -> s[i]]

\* format_worldcat_url: https://{site}.on.worldcat.org/search?queryString={...}
format_worldcat_url(title, site, config) ==
  [site |-> site, queryString |-> quote(<<"ti:">> \o process_title_for_url(title, config))]

\* get_identifier
get_identifier(item) ==
  IF item.isbns # <<>> THEN item.isbns[1]
  ELSE IF item.issns # <<>> THEN item.issns[1]
  ELSE ""

\* one formatted_item; the fields copied through unread are left out
FormatItem(item, site, config) ==
  [title |-> IF item.title = None THEN <<>> ELSE item.title.v,
   url |-> format_worldcat_url(item.title, site, config),
   identifier |-> get_identifier(item)]

SORT_OPTIONS ==
  << [field |-> "relevancy", dir |-> "desc", label |-> "Most Relevant"],
     [field |-> "title", dir |-> "asc", label |-> "Title A-Z"] >>

\* the dictionary format_results returns from its except branch
FormatFallback(config) ==
  ("total_results" :> 0) @@ ("perpage" :> config.DEFAULT_RESULTS_PER_PAGE)
    @@ ("results" :> <<>>)

\* variant: every upstream record is formatted
format_results_AllItems(results, library_symbol, config) ==
  IF ~results.dict \/ config.partial THEN FormatFallback(config)
  ELSE LET total_results ==
             IF results.numberOfRecords = None THEN 0 ELSE results.numberOfRecords.v
           items == IF results.briefRecords = None THEN <<>> ELSE results.briefRecords.v
           limit == Len(items)
           site == get_discovery_site(library_symbol, config)
       IN IF \E k \in 1..limit : ~items[k].dict THEN FormatFallback(config)
          ELSE ("total_results" :> total_results) @@ ("perpage" :> limit)
                 @@ ("sort" :> [field |-> "relevancy", dir |-> "desc"])
                 @@ ("sort_options" :> SORT_OPTIONS)
                 @@ ("results" :> [k \in 1..limit |-> FormatItem(items[k], site, config)])

\* format_results; upstream JSON that is no object, a record among those
\* formatted that is no object, and a configuration whose attributes were
\* never set, raise inside the try
format_results(results, library_symbol, config) ==
  IF ~results.dict \/ config.partial THEN FormatFallback(config)
  ELSE LET total_results ==
             IF results.numberOfRecords = None THEN 0 ELSE results.numberOfRecords.v
           items == IF results.briefRecords = None THEN <<>> ELSE results.briefRecords.v
           limit == IF Len(items) < config.DEFAULT_RESULTS_PER_PAGE
                    THEN Len(items) ELSE config.DEFAULT_RESULTS_PER_PAGE
           site == get_discovery_site(library_symbol, config)
       IN IF \E k \in 1..limit : ~items[k].dict THEN FormatFallback(config)
          ELSE ("total_results" :> total_results) @@ ("perpage" :> limit)
                 @@ ("sort" :> [field |-> "relevancy", dir |-> "desc"])
                 @@ ("sort_options" :> SORT_OPTIONS)
                 @@ ("results" :> [k \in 1..limit |-> FormatItem(items[k], site, config)])

\* ---------------------------------------------------------------- responses

\* the (payload, status) pair of an error return
ErrorResponse(msg, status) ==
  [payload |-> ("error" :> msg) @@ ("total_results" :> 0) @@ ("results" :> <<>>),
   status |-> status]

\* app.py line 69: the page check's dictionary
PageErrorResponse ==
  [payload |-> ("error" :> MsgPage) @@ ("total results" :> 0) @@ ("results" :> <<>>),
   status |-> 400]

\* an exception that leaves the function
Raised(kind) == [raised |-> kind]

\* variant: the outer except clauses let the exception through
OuterExcept_Reraise(kind) == Raised(kind)

\* variant: the last except clause answers with the exception's own text
OuterExcept_Leak(kind) ==
  IF kind = "RequestException" THEN ErrorResponse("Search request failed", 503)
  ELSE ErrorResponse(kind, 500)

\* the two outer except clauses of search_worldcat
OuterExcept(kind) ==
  IF kind = "RequestException" THEN ErrorResponse("Search request failed", 503)
  ELSE ErrorResponse("An unexpected error occurred", 500)

\* -------------------------------------------------------------------- state

VARIABLES
  config,         \* the Config object shared by app.py and discovery.py
  now,            \* datetime.now(), in seconds
  _token,         \* auth_handler._token
  _token_expiry,  \* auth_handler._token_expiry
  posts,          \* token-endpoint POSTs issued so far
  lastRefresh,    \* time and lifetime of the last refresh that completed
  everCached,     \* whether self._token was ever assigned
  pc,             \* where each worker stands
  req,            \* the request a worker serves
  call,           \* the arguments of its search_worldcat call
  val,            \* cleaned query, page, limit and offset once validated
  body,           \* the token POST in flight, then its token_data
  tokret,         \* what get_token returned or raised
  get,            \* the upstream search GET it issued
  resp            \* the (payload, status) it answered

vars ==
  <<config, now, _token, _token_expiry, posts, lastRefresh, everCached, pc, req,
    call, val, body, tokret, get, resp>>

authVars == <<_token, _token_expiry, posts, lastRefresh, everCached>>

Workers == 1..NumCallers

\* the worker of the synchronous deployment, which serves one request at a time
SyncWorker == 1

\* ------------------------------------------------------------------- inputs

QueryInputs ==
  {Text(<<>>), Text(<<"a">>), Text(<<"!">>), Text(<<"W", "a", "a">>)}

PageInputs == {NaN, IntV(0), IntV(1), IntV(2), IntV(201), IntV(10000), IntV(10001)}

LimitInputs == {None, IntV(0), IntV(1), IntV(50), IntV(51)}

SortInputs ==
  {None, Text(<<>>), Text(<<"_">>), Text(<<"invalid", "_", "sort">>),
   Text(<<"relevancy", "_", "desc">>),
   Text(<<"title", "_", "asc">>), Text(<<"title", "_", "desc">>),
   Text(<<"date", "_", "asc">>), Text(<<"date", "_", "desc">>),
   Text(<<"library", "_", "asc">>), Text(<<"creator", "_", "asc">>),
   Text(<<"popularity", "_", "desc">>)}

ReferrerInputs == {None, Text(<<"X", "J", "U">>)}

\* request.args.get('q', '') is always a text; a direct caller may pass None
Requests ==
  [via : {"http", "direct"}, q : QueryInputs, page : PageInputs,
   limit : LimitInputs, sort : SortInputs, referrer : ReferrerInputs]
  \cup [via : {"direct"}, q : {None}, page : {IntV(1)}, limit : {None},
        sort : {None}, referrer : {None}]

\* bodies of a 200 answer of the token endpoint: a JSON object that may lack
\* access_token or expires_in
TokenShapes ==
  {[access_token |-> TRUE, expires_in |-> IntV(200)],
   [access_token |-> TRUE, expires_in |-> IntV(301)],
   [access_token |-> TRUE, expires_in |-> None],
   [access_token |-> FALSE, expires_in |-> IntV(301)]}

\* a brief record that is a JSON object
Item(title) == [dict |-> TRUE, title |-> title, isbns |-> <<>>, issns |-> <<>>]

\* a brief record that is no JSON object (a string, a number)
BadItem == [dict |-> FALSE]

\* bodies of a 200 answer of the search endpoint
UpstreamJsons ==
  {[dict |-> TRUE, numberOfRecords |-> IntV(2),
    briefRecords |-> ListV(<<Item(Text(<<"a", " ", "-", " ", "a">>))>>)],
   [dict |-> TRUE, numberOfRecords |-> None, briefRecords |-> None],
   [dict |-> FALSE]}

FailureDetails ==
  {"Request failed: connection error", "Request failed: 500 Server Error"}

\* --------------------------------------------------------------------- Init

\* nothing is cached and no request is under way
Quiet ==
  /\ now = 0
  /\ _token = None
  /\ _token_expiry = None
  /\ posts = 0
  /\ lastRefresh = None
  /\ everCached = FALSE
  /\ pc = [r \in Workers |-> "idle"]
  /\ req = [r \in Workers |-> None]
  /\ call = [r \in Workers |-> None]
  /\ val = [r \in Workers |-> None]
  /\ body = [r \in Workers |-> None]
  /\ tokret = [r \in Workers |-> None]
  /\ get = [r \in Workers |-> None]
  /\ resp = [r \in Workers |-> None]

Init == config \in Configs /\ Quiet

\* ------------------------------------------------------------ the handler

\* search() of app.py up to its call of search_worldcat: the response it
\* returns itself, or the arguments it passes on
search_precheck(request, cfg) ==
  LET query == Strip(request.q.v)
  IN IF query = <<>> THEN [done |-> TRUE, resp |-> ErrorResponse("No search query provided", 400)]
     ELSE IF PyLen(query) > MAX_QUERY_LENGTH
          THEN [done |-> TRUE, resp |-> ErrorResponse(MsgTooLong, 400)]
     ELSE IF request.page = NaN
          THEN [done |-> TRUE, resp |-> ErrorResponse("Invalid pagination parameters", 400)]
     ELSE LET page == IF request.page = None THEN 1 ELSE request.page.v
          IN IF page < 1 THEN [done |-> TRUE, resp |-> PageErrorResponse]
             ELSE IF request.limit = NaN
                  THEN [done |-> TRUE,
                        resp |-> ErrorResponse("Invalid pagination parameters", 400)]
             ELSE LET limit == IF request.limit = None
                               THEN cfg.DEFAULT_RESULTS_PER_PAGE ELSE request.limit.v
                  IN IF limit < 1 \/ limit > cfg.MAX_RESULTS_PER_PAGE
                     THEN [done |-> TRUE,
                           resp |-> ErrorResponse(
                             "Results per page must be between 1 and MAX_RESULTS_PER_PAGE", 400)]
                     ELSE [done |-> FALSE,
                           args |-> [query |-> Text(query), page |-> IntV(page),
                                     limit |-> IntV(limit), referrer |-> request.referrer,
                                     sort |-> request.sort]]

\* what search() hands to the client for what search_worldcat gave it; an
\* exception would reach the handler's own except clause
AppReturn(result) ==
  IF "raised" \in DOMAIN result THEN ErrorResponse("Internal server error", 500)
  ELSE result

\* the result of search_worldcat as its caller gets it
Deliver(via, result) == IF via = "http" THEN AppReturn(result) ELSE result

\* ------------------------------------------------------- search_worldcat

\* "not query or not query.strip()"
QueryBlank(query) == Falsy(query) \/ Strip(query.v) = <<>>

\* variant: a zero-based offset
OffsetSent_ZeroBased(page, limit) == (page - 1) * limit

\* offset = ((validated_page - 1) * validated_limit) + 1
OffsetSent(page, limit) == ((page - 1) * limit) + 1

\* search_worldcat from its first line to the offset: the 400 it returns, or
\* the validated request
sw_validate(args, cfg) ==
  IF QueryBlank(args.query) THEN Err("400", "Search query cannot be empty")
  ELSE LET s == IF Falsy(args.sort) THEN Ok(TRUE) ELSE validate_sort(args.sort)
       IN IF ~s.ok THEN Err("400", s.error)
          ELSE LET c == sanitize_query(args.query.v)
               IN IF ~c.ok THEN Err("400", c.error)
                  ELSE LET p == validate_pagination(args.page, args.limit, cfg)
                       IN IF ~p.ok THEN Err("400", p.error)
                          ELSE Ok([cleaned_query |-> c.value,
                                   page |-> p.value.page,
                                   limit |-> p.value.limit,
                                   offset |-> OffsetSent(p.value.page, p.value.limit)])

\* the params of the upstream GET
SearchParams(v, library_symbol, sort) ==
  LET mapped_sort == IF Falsy(sort) THEN "bestMatch" ELSE map_springshare_sort(sort).value
  IN [q |-> v.cleaned_query, offset |-> v.offset, limit |-> v.limit,
      heldBySymbol |-> library_symbol, dbIds |-> "638", orderBy |-> mapped_sort]

\* the two except clauses around the upstream GET: Timeout first, then any
\* other RequestException with its text
UpstreamErrorResponse(kind, detail) ==
  IF kind = "Timeout" THEN ErrorResponse("Request timed out", 503)
  ELSE ErrorResponse(detail, 503)

\* ---------------------------------------------------------------- get_token

\* _is_token_valid
is_token_valid(token, expiry, t) ==
  IF token = None \/ expiry = None THEN FALSE ELSE t < expiry.v

\* variant: the except branch of get_token always gives None
StaleToken_Dropped(token) == None

\* the except branch of get_token: the cached token, or None
StaleToken(token) == token

\* variant: the token is cached until its real expiry
ExpiryFor_NoSkew(t, expires_in) == t + expires_in

\* _token_expiry after a refresh at time t
ExpiryFor(t, expires_in) == t + expires_in - TOKEN_SKEW

\* variant: the token body is not looked at for its access_token
get_valid_token_NoKeyCheck(token_data) ==
  IF token_data # None THEN IntV(token_data.id) ELSE None

\* variant: get_valid_token always has something to give
get_valid_token_Always(token_data) ==
  IF token_data # None THEN IntV(token_data.id) ELSE IntV(0)

\* get_valid_token: the access token (named by the id of its body), or None
get_valid_token(token_data) ==
  IF token_data # None /\ token_data.access_token THEN IntV(token_data.id) ELSE None

\* ------------------------------------------------------------------ actions

Finished(r, result) ==
  /\ resp' = [resp EXCEPT ![r] = Deliver(req[r].via, result)]
  /\ pc' = [pc EXCEPT ![r] = "done"]

\* a request reaches the worker: through /search, or as a direct call of
\* search_worldcat
Arrive(r) ==
  /\ pc[r] = "idle"
  /\ \A o \in Workers : pc[o] = "idle"
  /\ \E request \in Requests :
       /\ req' = [req EXCEPT ![r] = request]
       /\ IF request.via = "http"
          THEN /\ pc' = [pc EXCEPT ![r] = "search"]
               /\ call' = call
          ELSE /\ pc' = [pc EXCEPT ![r] = "search_worldcat"]
               /\ call' = [call EXCEPT ![r] =
                             [query |-> request.q, page |-> request.page,
                              limit |-> request.limit, referrer |-> request.referrer,
                              sort |-> request.sort]]
  /\ UNCHANGED <<config, now, authVars, val, body, tokret, get, resp>>

\* search() of app.py rejects the request itself
AppReject(r) ==
  /\ pc[r] = "search"
  /\ search_precheck(req[r], config).done
  /\ Finished(r, search_precheck(req[r], config).resp)
  /\ UNCHANGED <<config, now, authVars, req, call, val, body, tokret, get>>

\* search() of app.py calls search_worldcat
AppCall(r) ==
  /\ pc[r] = "search"
  /\ ~search_precheck(req[r], config).done
  /\ call' = [call EXCEPT ![r] = search_precheck(req[r], config).args]
  /\ pc' = [pc EXCEPT ![r] = "search_worldcat"]
  /\ UNCHANGED <<config, now, authVars, req, val, body, tokret, get, resp>>

\* search_worldcat returns 400: empty query, sort, sanitization, pagination
Reject(r) ==
  /\ pc[r] = "search_worldcat"
  /\ ~sw_validate(call[r], config).ok
  /\ Finished(r, ErrorResponse(sw_validate(call[r], config).error, 400))
  /\ UNCHANGED <<config, now, authVars, req, call, val, body, tokret, get>>

\* search_worldcat has validated its arguments and calls get_valid_token
Validated(r) ==
  /\ pc[r] = "search_worldcat"
  /\ sw_validate(call[r], config).ok
  /\ val' = [val EXCEPT ![r] = sw_validate(call[r], config).value]
  /\ pc' = [pc EXCEPT ![r] = "get_token"]
  /\ UNCHANGED <<config, now, authVars, req, call, body, tokret, get, resp>>

\* a direct call of get_token()
CallGetToken(r) ==
  /\ pc[r] = "idle"
  /\ pc' = [pc EXCEPT ![r] = "get_token"]
  /\ UNCHANGED <<config, now, authVars, req, call, val, body, tokret, get, resp>>

\* get_token returns the cached token
CacheHit(r) ==
  /\ pc[r] = "get_token"
  /\ is_token_valid(_token, _token_expiry, now)
  /\ tokret' = [tokret EXCEPT ![r] = [kind |-> "cached", value |-> _token]]
  /\ pc' = [pc EXCEPT ![r] = "tok_ret"]
  /\ UNCHANGED <<config, now, authVars, req, call, val, body, get, resp>>

\* get_token sends the token POST
RequestToken(r) ==
  /\ pc[r] = "get_token"
  /\ ~is_token_valid(_token, _token_expiry, now)
  /\ posts < MaxPosts
  /\ posts' = posts + 1
  /\ body' = [body EXCEPT ![r] = IntV(posts + 1)]
  /\ pc' = [pc EXCEPT ![r] = "post"]
  /\ UNCHANGED <<config, now, _token, _token_expiry, lastRefresh, everCached, req,
                 call, val, tokret, get, resp>>

\* the POST raises a RequestException: network error, error status
PostFail(r) ==
  /\ pc[r] = "post"
  /\ tokret' = [tokret EXCEPT ![r] =
                  IF StaleToken(_token) # None
                  THEN [kind |-> "stale", value |-> StaleToken(_token)]
                  ELSE [kind |-> "none", value |-> None]]
  /\ body' = [body EXCEPT ![r] = None]
  /\ pc' = [pc EXCEPT ![r] = "tok_ret"]
  /\ UNCHANGED <<config, now, authVars, req, call, val, get, resp>>

\* the POST answers 200 and self._token is assigned
PostOk(r) ==
  /\ pc[r] = "post"
  /\ \E shape \in TokenShapes :
       LET token_data == [id |-> body[r].v, access_token |-> shape.access_token,
                          expires_in |-> shape.expires_in]
       IN /\ _token' = token_data
          /\ body' = [body EXCEPT ![r] = token_data]
  /\ everCached' = TRUE
  /\ pc' = [pc EXCEPT ![r] = "set_expiry"]
  /\ UNCHANGED <<config, now, _token_expiry, posts, lastRefresh, req, call, val,
                 tokret, get, resp>>

\* self._token_expiry is assigned and get_token returns token_data
SetExpiry(r) ==
  /\ pc[r] = "set_expiry"
  /\ body[r].expires_in # None
  /\ _token_expiry' = IntV(ExpiryFor(now, body[r].expires_in.v))
  /\ lastRefresh' = [t |-> now, expires_in |-> body[r].expires_in.v]
  /\ tokret' = [tokret EXCEPT ![r] = [kind |-> "fresh", value |-> body[r]]]
  /\ body' = [body EXCEPT ![r] = None]
  /\ pc' = [pc EXCEPT ![r] = "tok_ret"]
  /\ UNCHANGED <<config, now, _token, posts, everCached, req, call, val, get, resp>>

\* token_data['expires_in'] raises KeyError, which get_token does not catch
ExpiryKeyError(r) ==
  /\ pc[r] = "set_expiry"
  /\ body[r].expires_in = None
  /\ tokret' = [tokret EXCEPT ![r] = [kind |-> "raised", value |-> None]]
  /\ body' = [body EXCEPT ![r] = None]
  /\ pc' = [pc EXCEPT ![r] = "tok_ret"]
  /\ UNCHANGED <<config, now, authVars, req, call, val, get, resp>>

\* the direct call of get_token() is over
ReturnToken(r) ==
  /\ pc[r] = "tok_ret"
  /\ req[r] = None
  /\ tokret' = [tokret EXCEPT ![r] = None]
  /\ pc' = [pc EXCEPT ![r] = "idle"]
  /\ UNCHANGED <<config, now, authVars, req, call, val, body, get, resp>>

\* get_token raised inside search_worldcat: the outer except answers
TokenRaised(r) ==
  /\ pc[r] = "tok_ret"
  /\ req[r] # None
  /\ tokret[r].kind = "raised"
  /\ Finished(r, OuterExcept("KeyError"))
  /\ UNCHANGED <<config, now, authVars, req, call, val, body, tokret, get>>

\* "if not access_token": 401
Unauthorized(r) ==
  /\ pc[r] = "tok_ret"
  /\ req[r] # None
  /\ tokret[r].kind # "raised"
  /\ get_valid_token(tokret[r].value) = None
  /\ Finished(r, ErrorResponse("Authentication failed", 401))
  /\ UNCHANGED <<config, now, authVars, req, call, val, body, tokret, get>>

\* get_library_symbol raises: the outer except answers
LibraryError(r) ==
  /\ pc[r] = "tok_ret"
  /\ req[r] # None
  /\ tokret[r].kind # "raised"
  /\ get_valid_token(tokret[r].value) # None
  /\ \E stall \in StallPoints(config) :
       /\ ~get_library_symbol(call[r].referrer, config, stall).ok
       /\ Finished(r, OuterExcept(get_library_symbol(call[r].referrer, config, stall).kind))
  /\ UNCHANGED <<config, now, authVars, req, call, val, body, tokret, get>>

\* the upstream search GET is sent
IssueSearch(r) ==
  /\ pc[r] = "tok_ret"
  /\ req[r] # None
  /\ tokret[r].kind # "raised"
  /\ get_valid_token(tokret[r].value) # None
  /\ \E stall \in StallPoints(config) :
       /\ get_library_symbol(call[r].referrer, config, stall).ok
       /\ get' = [get EXCEPT ![r] =
                    [params |-> SearchParams(val[r],
                                  get_library_symbol(call[r].referrer, config, stall).value,
                                  call[r].sort),
                     bearer |-> get_valid_token(tokret[r].value).v,
                     outcome |-> "pending"]]
  /\ pc' = [pc EXCEPT ![r] = "upstream"]
  /\ UNCHANGED <<config, now, authVars, req, call, val, body, tokret, resp>>

\* what session.get raises when the upstream does not answer within the
\* timeout.  The session's adapter is mounted with Retry(total=3): a connect
\* timeout leaves it as ConnectTimeout, a Timeout; a read timeout of a GET is
\* retried, and when the retries are used up the adapter raises
\* ConnectionError (Max retries exceeded, caused by ReadTimeoutError), which
\* is a RequestException and not a Timeout
TimeoutRaised(phase) ==
  IF phase = "connect"
  THEN [kind |-> "Timeout", detail |-> "Request failed: connect timed out"]
  ELSE [kind |-> "RequestException",
        detail |-> "Request failed: Max retries exceeded (Read timed out)"]

\* the upstream does not answer in time: "except Timeout", or "except
\* RequestException" for what is not a Timeout
UpstreamTimeout(r) ==
  /\ pc[r] = "upstream"
  /\ get' = [get EXCEPT ![r].outcome = "timeout"]
  /\ \E phase \in {"connect", "read"} :
       Finished(r, UpstreamErrorResponse(TimeoutRaised(phase).kind,
                                         TimeoutRaised(phase).detail))
  /\ UNCHANGED <<config, now, authVars, req, call, val, body, tokret>>

\* "except RequestException": connection error, error status
UpstreamFailed(r) ==
  /\ pc[r] = "upstream"
  /\ get' = [get EXCEPT ![r].outcome = "failed"]
  /\ \E detail \in FailureDetails :
       Finished(r, UpstreamErrorResponse("RequestException", detail))
  /\ UNCHANGED <<config, now, authVars, req, call, val, body, tokret>>

\* response.json() raises: a RequestException or a plain ValueError,
\* depending on the version of requests
UpstreamBadJson(r) ==
  /\ pc[r] = "upstream"
  /\ get' = [get EXCEPT ![r].outcome = "badjson"]
  /\ \E kind \in {"RequestException", "ValueError"} : Finished(r, OuterExcept(kind))
  /\ UNCHANGED <<config, now, authVars, req, call, val, body, tokret>>

\* the upstream answers 200 and format_results shapes the answer
UpstreamOk(r) ==
  /\ pc[r] = "upstream"
  /\ get' = [get EXCEPT ![r].outcome = "ok"]
  /\ \E results \in UpstreamJsons :
       Finished(r, [payload |-> format_results(results, get[r].params.heldBySymbol, config),
                    status |-> 200])
  /\ UNCHANGED <<config, now, authVars, req, call, val, body, tokret>>

\* the response is sent and the worker is free again
Finish(r) ==
  /\ pc[r] = "done"
  /\ pc' = [pc EXCEPT ![r] = "idle"]
  /\ req' = [req EXCEPT ![r] = None]
  /\ call' = [call EXCEPT ![r] = None]
  /\ val' = [val EXCEPT ![r] = None]
  /\ tokret' = [tokret EXCEPT ![r] = None]
  /\ get' = [get EXCEPT ![r] = None]
  /\ resp' = [resp EXCEPT ![r] = None]
  /\ UNCHANGED <<config, now, authVars, body>>

\* time passes
Tick ==
  /\ now < MaxNow
  /\ now' = now + 1
  /\ UNCHANGED <<config, authVars, pc, req, call, val, body, tokret, get, resp>>

\* ----------------------------------------------------------- specifications

GetToken(r) ==
  \/ CacheHit(r)
  \/ RequestToken(r)
  \/ PostFail(r)
  \/ PostOk(r)
  \/ SetExpiry(r)
  \/ ExpiryKeyError(r)

\* one synchronous worker serving requests one after the other, at one
\* instant: a cached token stays valid or expired as its lifetime made it
Next ==
  \/ Arrive(SyncWorker)
  \/ AppReject(SyncWorker)
  \/ AppCall(SyncWorker)
  \/ Reject(SyncWorker)
  \/ Validated(SyncWorker)
  \/ GetToken(SyncWorker)
  \/ TokenRaised(SyncWorker)
  \/ Unauthorized(SyncWorker)
  \/ LibraryError(SyncWorker)
  \/ IssueSearch(SyncWorker)
  \/ UpstreamTimeout(SyncWorker)
  \/ UpstreamFailed(SyncWorker)
  \/ UpstreamBadJson(SyncWorker)
  \/ UpstreamOk(SyncWorker)
  \/ Finish(SyncWorker)

Spec == Init /\ [][Next]_vars

\* threads calling get_token() on the shared auth_handler
NextAuth ==
  \/ \E r \in Workers : CallGetToken(r) \/ GetToken(r) \/ ReturnToken(r)
  \/ Tick

InitAuth == Init /\ config = CfgStandard

SpecAuth == InitAuth /\ [][NextAuth]_vars

\* the symbols query texts are made of in the query specification
QuerySymbols == {"a", "W", " ", "+", QUOTE, "!", "%21", "Q"}

Texts(n) == UNION {[1..k -> QuerySymbols] : k \in 0..n}

\* a direct call of search_worldcat with any query text and nothing else
ArriveQuery(r) ==
  /\ pc[r] = "idle"
  /\ \E q \in Texts(MaxQueryLen) :
       LET request == [via |-> "direct", q |-> Text(q), page |-> IntV(1),
                       limit |-> None, sort |-> None, referrer |-> None]
       IN /\ req' = [req EXCEPT ![r] = request]
          /\ call' = [call EXCEPT ![r] =
                        [query |-> request.q, page |-> request.page,
                         limit |-> request.limit, referrer |-> request.referrer,
                         sort |-> request.sort]]
  /\ pc' = [pc EXCEPT ![r] = "search_worldcat"]
  /\ UNCHANGED <<config, now, authVars, val, body, tokret, get, resp>>

\* the query stage of search_worldcat on every text of up to MaxQueryLen symbols
NextQuery ==
  \/ ArriveQuery(SyncWorker)
  \/ Reject(SyncWorker)
  \/ Validated(SyncWorker)
  \/ Finish(SyncWorker)

SpecQuery == InitAuth /\ [][NextQuery]_vars

\* ------------------------------------------------------------------- claims

Done(r) == pc[r] = "done"

ErrorKeys == {"error", "total_results", "results"}

\* C1: search_worldcat answers every call with one (payload, status) pair
\* whose status is 200, 400, 401, 500 or 503; no exception leaves it; and a
\* search whose upstream call succeeded is answered 200, nothing else is.
C1_AlwaysAResponse ==
  \A r \in Workers :
    Done(r) =>
      /\ DOMAIN resp[r] = {"payload", "status"}
      /\ resp[r].status \in {200, 400, 401, 500, 503}
      /\ (resp[r].status = 200) <=> (get[r] # None /\ get[r].outcome = "ok")

\* C1 witness: a direct call in which an exception was raised and answered 500
C1_Witness ==
  \E r \in Workers :
    /\ Done(r) /\ req[r].via = "direct"
    /\ tokret[r] # None /\ tokret[r].kind = "raised"
    /\ resp[r].status = 500

\* C2: every response that is not a 200 has exactly the keys error,
\* total_results and results, with a non-empty error, total_results 0 and no
\* results: from search_worldcat and from the checks of the /search handler.
C2_ErrorShape ==
  \A r \in Workers :
    (Done(r) /\ resp[r].status # 200) =>
      /\ DOMAIN resp[r].payload = ErrorKeys
      /\ resp[r].payload["error"] # ""
      /\ resp[r].payload["total_results"] = 0
      /\ resp[r].payload["results"] = <<>>

\* C3: while the cached token is absent or expired, concurrent callers of
\* get_token() have at most one token POST outstanding between them.
C3_SingleFlight == Cardinality({r \in Workers : pc[r] = "post"}) <= 1

\* C4: when the token POST fails, get_token() returns the cached token if
\* there is one, expired or not, and None only if no token was ever cached.
C4_StaleWhileError ==
  [][\A r \in Workers :
       (pc[r] = "post" /\ pc'[r] = "tok_ret") =>
         IF _token # None
         THEN tokret'[r].kind = "stale" /\ tokret'[r].value = _token
         ELSE tokret'[r].kind = "none" /\ tokret'[r].value = None /\ ~everCached]_vars

\* C4 witness: a failed refresh answered with the cached token, which is expired
C4_Witness ==
  \E r \in Workers :
    /\ pc[r] = "tok_ret" /\ tokret[r].kind = "stale"
    /\ tokret[r].value = _token
    /\ _token_expiry # None /\ now >= _token_expiry.v

\* C5: once a refresh at time t returned lifetime expires_in, get_token()
\* sends a token POST exactly when now >= t + expires_in - 300 (or no token
\* is cached); before that it returns the cached token and sends nothing.
C5_RefreshAheadOfExpiry ==
  [][\A r \in Workers :
       (pc[r] = "get_token" /\ pc'[r] # "get_token"
          /\ (_token = None \/ lastRefresh # None)) =>
         LET due == \/ _token = None
                    \/ now >= lastRefresh.t + lastRefresh.expires_in - 300
         IN /\ (pc'[r] = "post") <=> due
            /\ (pc'[r] = "post") => posts' = posts + 1
            /\ (pc'[r] # "post") =>
                 /\ pc'[r] = "tok_ret" /\ posts' = posts
                 /\ tokret'[r].kind = "cached" /\ tokret'[r].value = _token]_vars

\* C5 witness: a token refreshed at time 0 is served from the cache at time 0
\* by one caller while, its last five minutes begun, another caller refreshes
C5_Witness ==
  \E r1, r2 \in Workers :
    /\ pc[r1] = "tok_ret" /\ tokret[r1].kind = "cached"
    /\ pc[r2] = "post"
    /\ lastRefresh # None /\ now = lastRefresh.t + lastRefresh.expires_in - 300

\* C6: when get_valid_token gives no token (None from get_token, or a
\* cached body without access_token), search_worldcat answers 401 with an
\* authentication error and sends no upstream GET.
C6_NoCredentialIs401 ==
  \A r \in Workers :
    (Done(r) /\ tokret[r] # None /\ tokret[r].kind # "raised"
       /\ (tokret[r].value = None \/ ~tokret[r].value.access_token)) =>
      /\ resp[r].status = 401
      /\ resp[r].payload["error"] = "Authentication failed"
      /\ get[r] = None

\* C6 witness: the token POST failed with nothing cached and the answer is 401
C6_Witness ==
  \E r \in Workers :
    /\ Done(r) /\ tokret[r] # None /\ tokret[r].kind = "none"
    /\ resp[r].status = 401 /\ get[r] = None

\* C7: an upstream GET that times out is answered 503 "Request timed out";
\* any other network or status failure of it is answered 503 with the
\* failure detail.
C7_UpstreamFailureIs503 ==
  \A r \in Workers :
    (Done(r) /\ get[r] # None) =>
      /\ (get[r].outcome = "timeout") =>
           (resp[r].status = 503 /\ resp[r].payload["error"] = "Request timed out")
      /\ (get[r].outcome = "failed") =>
           (resp[r].status = 503 /\ resp[r].payload["error"] \in FailureDetails)

\* the symbols of a decoded text that sanitization keeps outside quotes
WordSymbols == {"a", "W", "Q"}

\* the text has something sanitization keeps: a word symbol, or a pair of
\* double quotes with something other than a quote between them
Visible(q) ==
  LET d == unquote_plus(q)
  IN \/ \E i \in 1..Len(d) : d[i] \in WordSymbols
     \/ \E i, j \in 1..Len(d) :
          /\ i + 1 < j /\ d[i] = QUOTE /\ d[j] = QUOTE
          /\ \A k \in (i + 1)..(j - 1) : d[k] # QUOTE

Count(s, c) == Cardinality({i \in 1..Len(s) : s[i] = c})

\* C8: search_worldcat rejects a query with 400 exactly when its raw length is
\* over 500 or nothing of it survives sanitization; every other query goes on,
\* and its cleaned form still has every word symbol of the raw text.
C8_QueryRejectedExactly ==
  \A r \in Workers :
    ((Done(r) \/ pc[r] = "get_token") /\ req[r] # None /\ req[r].q # None) =>
      LET q == call[r].query.v
          bad == PyLen(q) > 500 \/ ~Visible(q)
      IN /\ Done(r) <=> bad
         /\ Done(r) => resp[r].status = 400
         /\ ~Done(r) =>
              \A c \in WordSymbols :
                Count(val[r].cleaned_query, c) = Count(unquote_plus(q), c)

\* C8 witness: a query of exactly 500 characters went through whole
C8_Witness ==
  \E r \in Workers :
    /\ pc[r] = "get_token" /\ req[r] # None
    /\ PyLen(call[r].query.v) = 500
    /\ PyLen(val[r].cleaned_query) = 500

\* the limit a call asks for: its own, or the configured default
AskedLimit(r) ==
  IF call[r].limit = None THEN config.DEFAULT_RESULTS_PER_PAGE ELSE call[r].limit.v

\* C9: every upstream search GET carries a page of at least 1 and a limit
\* between 1 and MAX_RESULTS_PER_PAGE, the default limit included.
C9_PaginationInRange ==
  \A r \in Workers :
    get[r] # None =>
      /\ call[r].page.v >= 1
      /\ get[r].params.limit >= 1
      /\ get[r].params.limit <= config.MAX_RESULTS_PER_PAGE

\* C10: the offset of the upstream GET is (page - 1) * limit + 1, and larger
\* than the offset of every earlier page of the same limit.
C10_OffsetFormula ==
  \A r \in Workers :
    get[r] # None =>
      /\ get[r].params.offset = (call[r].page.v - 1) * AskedLimit(r) + 1
      /\ get[r].params.offset = calculate_offset(call[r].page.v, AskedLimit(r))
      /\ \A p \in 1..(call[r].page.v - 1) :
           OffsetSent(p, AskedLimit(r)) < get[r].params.offset

\* C10 witness: page 201 of limit 1 was asked upstream, from offset 201
C10_Witness ==
  \E r \in Workers :
    /\ get[r] # None /\ call[r].page.v = 201 /\ get[r].params.limit = 1
    /\ get[r].params.offset = 201

\* the call's page and limit are integers (or the limit is absent)
IntegerPaging(r) ==
  /\ call[r] # None
  /\ call[r].page # None /\ call[r].page # NaN /\ call[r].limit # NaN

SortTexts(n) ==
  UNION {[1..k -> {"relevancy", "title", "date", "library", "creator",
                   "popularity", "bogus", "asc", "desc", "_"}] : k \in 0..n}

\* a caller passes a sort parameter: None, or any text of up to MaxSortLen symbols
ArriveSort(r) ==
  /\ pc[r] = "idle"
  /\ \E sort \in {None} \cup {Text(t) : t \in SortTexts(MaxSortLen)} :
       call' = [call EXCEPT ![r] = [sort |-> sort]]
  /\ pc' = [pc EXCEPT ![r] = "map_sort"]
  /\ UNCHANGED <<config, now, authVars, req, val, body, tokret, get, resp>>

\* map_springshare_sort runs: its value, or the ValueError it raises
MapSort(r) ==
  /\ pc[r] = "map_sort"
  /\ val' = [val EXCEPT ![r] = map_springshare_sort(call[r].sort)]
  /\ pc' = [pc EXCEPT ![r] = "sorted"]
  /\ UNCHANGED <<config, now, authVars, req, call, body, tokret, get, resp>>

\* the caller has its answer
FinishSort(r) ==
  /\ pc[r] = "sorted"
  /\ call' = [call EXCEPT ![r] = None]
  /\ val' = [val EXCEPT ![r] = None]
  /\ pc' = [pc EXCEPT ![r] = "idle"]
  /\ UNCHANGED <<config, now, authVars, req, body, tokret, get, resp>>

NextSort == ArriveSort(SyncWorker) \/ MapSort(SyncWorker) \/ FinishSort(SyncWorker)

SpecSort == InitAuth /\ [][NextSort]_vars

\* the six fields of the Springshare vocabulary with their directions and
\* the upstream value of each, as (field, direction, value)
SortTable ==
  {<<"relevancy", "desc", "bestMatch">>,
   <<"title", "asc", "title">>, <<"title", "desc", "title desc">>,
   <<"date", "asc", "publicationDateAsc">>, <<"date", "desc", "publicationDateDesc">>,
   <<"library", "asc", "library">>, <<"creator", "asc", "creator">>,
   <<"popularity", "desc", "mostWidelyHeld">>}

\* what the table gives for a sort parameter, as a set: empty when it has no
\* entry for it
TableValue(sort) ==
  IF sort = None THEN {}
  ELSE {e[3] : e \in {e \in SortTable : sort.v = <<e[1], "_", e[2]>>}}

\* the mapping answers as stated, the parameters of the set defaults being
\* the ones mapped to bestMatch outside the table
SortAnswersAsStated(defaults) ==
  \A r \in Workers :
    pc[r] = "sorted" =>
      IF call[r].sort \in defaults THEN val[r] = Ok("bestMatch")
      ELSE IF TableValue(call[r].sort) # {}
           THEN val[r].ok /\ val[r].value \in TableValue(call[r].sort)
           ELSE ~val[r].ok

C13_OrderByInEnum ==
  \A r \in Workers :
    get[r] # None =>
      /\ get[r].params.orderBy \in
           {"library", "recency", "bestMatch", "creator", "publicationDateAsc",
            "publicationDateDesc", "mostWidelyHeld", "title"}
      /\ (call[r].sort = None \/ call[r].sort = Text(<<>>)) =>
           get[r].params.orderBy = "bestMatch"

\* C13 witness: a GET ordered by publicationDateDesc for the sort date_desc
C13_Witness ==
  \E r \in Workers :
    /\ get[r] # None /\ call[r].sort = Text(<<"date", "_", "desc">>)
    /\ get[r].params.orderBy = "publicationDateDesc"

\* the messages of the ValueErrors of map_springshare_sort and validate_sort
SortErrors ==
  {"Invalid sort format", "Invalid sort field", "Invalid direction for field",
   "Invalid sort option. Must be one of: ..."}

\* search_worldcat answered 400 for the sort
SortRejected(r) ==
  /\ Done(r) /\ resp[r].status = 400
  /\ resp[r].payload["error"] \in SortErrors

\* C14: search_worldcat answers 400 for the sort exactly when the sort has
\* no entry in the mapping table (and is not '_'); a sort of the table
\* reaches the upstream GET with the table's value as orderBy.
C14_SortRejectedExactly ==
  \A r \in Workers :
    ((Done(r) \/ get[r] # None) /\ call[r] # None /\ ~QueryBlank(call[r].query)
       /\ call[r].sort # None /\ call[r].sort # Text(<<>>)) =>
      /\ SortRejected(r) <=>
           (TableValue(call[r].sort) = {} /\ call[r].sort # Text(<<"_">>))
      /\ (get[r] # None /\ TableValue(call[r].sort) # {}) =>
           get[r].params.orderBy \in TableValue(call[r].sort)

\* ----------------------------------------------------- get_library_symbol

\* the symbols referrers are made of
ReferrerTexts(n) == UNION {[1..k -> {"J", "U", "u", "X"}] : k \in 0..n}

\* a caller passes a referrer: None, or any text of up to MaxReferrerLen
\* symbols; the stall is what the wall clock will do during the lookup
ArriveLibrary(r) ==
  /\ pc[r] = "idle"
  /\ \E referrer \in {None} \cup {Text(t) : t \in ReferrerTexts(MaxReferrerLen)},
        stall \in StallPoints(config) :
       call' = [call EXCEPT ![r] = [referrer |-> referrer, stall |-> stall]]
  /\ pc' = [pc EXCEPT ![r] = "library"]
  /\ UNCHANGED <<config, now, authVars, req, val, body, tokret, get, resp>>

\* get_library_symbol runs: its value, or the exception that leaves it
ResolveLibrary(r) ==
  /\ pc[r] = "library"
  /\ val' = [val EXCEPT ![r] =
               get_library_symbol(call[r].referrer, config, call[r].stall)]
  /\ pc' = [pc EXCEPT ![r] = "resolved"]
  /\ UNCHANGED <<config, now, authVars, req, call, body, tokret, get, resp>>

\* the caller has its answer
FinishLibrary(r) ==
  /\ pc[r] = "resolved"
  /\ call' = [call EXCEPT ![r] = None]
  /\ val' = [val EXCEPT ![r] = None]
  /\ pc' = [pc EXCEPT ![r] = "idle"]
  /\ UNCHANGED <<config, now, authVars, req, body, tokret, get, resp>>

NextLibrary ==
  ResolveLibrary(SyncWorker) \/ ArriveLibrary(SyncWorker) \/ FinishLibrary(SyncWorker)

SpecLibrary == Init /\ [][NextLibrary]_vars

\* the places in the mapping table whose domain occurs in the referrer,
\* letter case apart
MatchingPlaces(referrer) ==
  {k \in 1..Len(config.LIBRARY_MAPPINGS) :
     Contains(Lower(referrer), Lower(config.LIBRARY_MAPPINGS[k].domain))}

FirstPlace(places) == CHOOSE k \in places : \A j \in places : k <= j

\* C15: get_library_symbol returns the default symbol for an absent referrer
\* and for one that contains no configured domain, and otherwise the symbol
\* of the first configured domain the referrer contains, letter case apart.
C15_FirstMatchWins ==
  \A r \in Workers :
    pc[r] = "resolved" =>
      /\ val[r].ok
      /\ IF call[r].referrer = None \/ MatchingPlaces(call[r].referrer.v) = {}
         THEN val[r].value = config.DEFAULT_LIBRARY
         ELSE val[r].value =
                config.LIBRARY_MAPPINGS[FirstPlace(MatchingPlaces(call[r].referrer.v))].symbol

\* C16: get_library_symbol always returns, and what it returns is a
\* non-empty symbol, whatever the referrer and the state of the configuration.
C16_AlwaysASymbol ==
  \A r \in Workers :
    pc[r] = "resolved" => (val[r].ok /\ val[r].value # "")

\* ----------------------------------------------------------- format_results

\* the brief records of the formatter's inputs: two objects with a title,
\* and a record that is no object
RecordLists(n) ==
  UNION {[1..k -> {Item(Text(<<"a">>)), Item(Text(<<"b", " ", "-", " ", "b">>)),
                   BadItem}] : k \in 0..n}

\* upstream JSON handed to format_results: an object with or without
\* numberOfRecords and briefRecords, or something that is no object
FormatInputs ==
  [dict : {TRUE}, numberOfRecords : {None, IntV(0), IntV(7)},
   briefRecords : {None} \cup {ListV(l) : l \in RecordLists(MaxRecords)}]
  \cup {[dict |-> FALSE]}

\* the configurations format_results runs under: the standard one, one with
\* DEFAULT_RESULTS_PER_PAGE=2 in the environment, the half-loaded one
InitFormat ==
  /\ config \in {CfgStandard, [CfgStandard EXCEPT !.DEFAULT_RESULTS_PER_PAGE = 2],
                 CfgPartial}
  /\ Quiet

\* format_results is called for an upstream answer; limit is the page size
\* the request asked for, which format_results is not given
ArriveFormat(r) ==
  /\ pc[r] = "idle"
  /\ \E results \in FormatInputs, library_symbol \in {"", "SZH", "TJC", "TKN"}, limit \in {1, 50} :
       call' = [call EXCEPT ![r] =
                  [results |-> results, library_symbol |-> library_symbol,
                   limit |-> limit]]
  /\ pc' = [pc EXCEPT ![r] = "format"]
  /\ UNCHANGED <<config, now, authVars, req, val, body, tokret, get, resp>>

\* format_results runs
FormatResults(r) ==
  /\ pc[r] = "format"
  /\ val' = [val EXCEPT ![r] =
               format_results(call[r].results, call[r].library_symbol, config)]
  /\ pc' = [pc EXCEPT ![r] = "formatted"]
  /\ UNCHANGED <<config, now, authVars, req, call, body, tokret, get, resp>>

\* the caller has its answer
FinishFormat(r) ==
  /\ pc[r] = "formatted"
  /\ call' = [call EXCEPT ![r] = None]
  /\ val' = [val EXCEPT ![r] = None]
  /\ pc' = [pc EXCEPT ![r] = "idle"]
  /\ UNCHANGED <<config, now, authVars, req, body, tokret, get, resp>>

NextFormat ==
  ArriveFormat(SyncWorker) \/ FormatResults(SyncWorker) \/ FinishFormat(SyncWorker)

SpecFormat == InitFormat /\ [][NextFormat]_vars

\* the brief records of an upstream answer, none when the key is missing
UpstreamRecords(results) ==
  IF results.briefRecords = None THEN <<>> ELSE results.briefRecords.v

\* the number of records format_results is to give back
PageSize(results) ==
  IF Len(UpstreamRecords(results)) < config.DEFAULT_RESULTS_PER_PAGE
  THEN Len(UpstreamRecords(results)) ELSE config.DEFAULT_RESULTS_PER_PAGE

\* formatting meets nothing it cannot handle: the configuration is loaded,
\* the answer is an object and the records to format are objects
Formattable(results) ==
  /\ ~config.partial
  /\ results.dict
  /\ \A k \in 1..PageSize(results) : UpstreamRecords(results)[k].dict

C18_WellShapedAlways ==
  \A r \in Workers :
    pc[r] = "formatted" =>
      /\ DOMAIN val[r] = {"total_results", "perpage", "sort", "sort_options", "results"}
      /\ ~Formattable(call[r].results) =>
           (val[r]["total_results"] = 0 /\ val[r]["results"] = <<>>)

\* C19: the url of every formatted result is
\* https://{site}.on.worldcat.org/search?queryString={encoded 'ti:' + normalized
\* title}, the site being the one mapped to the library symbol when there is
\* a non-empty one and the default site otherwise, the same for all results.
C19_ResultUrl ==
  \A r \in Workers :
    (pc[r] = "formatted" /\ Formattable(call[r].results)) =>
      LET symbol == call[r].library_symbol
          site == IF symbol \in DOMAIN config.SITE_MAPPINGS
                     /\ config.SITE_MAPPINGS[symbol] # ""
                  THEN config.SITE_MAPPINGS[symbol] ELSE config.DEFAULT_SITE
          items == UpstreamRecords(call[r].results)
          out == val[r]["results"]
      IN \A k \in 1..Len(out) :
           /\ out[k].url.site = site
           /\ out[k].url.queryString =
                quote(<<"ti:">> \o process_title_for_url(items[k].title, config))
           /\ \A j \in 1..Len(out) : out[j].url.site = out[k].url.site

\* C19 witness: for the library TJC, mapped to the site johnson, the title
\* 'b - b' got the url https://johnson.on.worldcat.org/search?queryString=ti%3Ab%20b
C19_Witness ==
  \E r \in Workers :
    /\ pc[r] = "formatted" /\ call[r].library_symbol = "TJC"
    /\ Len(val[r]["results"]) >= 2
    /\ val[r]["results"][2].title = <<"b", " ", "-", " ", "b">>
    /\ val[r]["results"][2].url =
         [site |-> "johnson", queryString |-> <<"ti%3A", "b", "%20", "b">>]

\* ---------------------------------------------------- process_title_for_url

\* URL_REPLACE_CHARS as the dash alone, as two characters, and as the empty list
InitTitle ==
  /\ config \in {CfgStandard,
                 [CfgStandard EXCEPT !.URL_REPLACE_CHARS = {"-", "b"}],
                 [CfgStandard EXCEPT !.URL_REPLACE_CHARS = {}]}
  /\ Quiet

\* nineteen words: a a a ... a
NineteenWords == [i \in 1..37 |-> IF i % 2 = 1 THEN "a" ELSE " "]

\* the titles: any text of up to n symbols, alone or after nineteen words
TitleTexts(n) ==
  {head \o t : head \in {<<>>, NineteenWords},
               t \in UNION {[1..k -> {"a", "b", " ", "-"}] : k \in 0..n}}

\* process_title_for_url is called for a title: None, or a text
ArriveTitle(r) ==
  /\ pc[r] = "idle"
  /\ \E title \in {None} \cup {Text(t) : t \in TitleTexts(MaxTitleLen)} :
       call' = [call EXCEPT ![r] = [title |-> title]]
  /\ pc' = [pc EXCEPT ![r] = "title"]
  /\ UNCHANGED <<config, now, authVars, req, val, body, tokret, get, resp>>

\* process_title_for_url runs
ProcessTitle(r) ==
  /\ pc[r] = "title"
  /\ val' = [val EXCEPT ![r] = Text(process_title_for_url(call[r].title, config))]
  /\ pc' = [pc EXCEPT ![r] = "titled"]
  /\ UNCHANGED <<config, now, authVars, req, call, body, tokret, get, resp>>

\* the caller has its answer
FinishTitle(r) ==
  /\ pc[r] = "titled"
  /\ call' = [call EXCEPT ![r] = None]
  /\ val' = [val EXCEPT ![r] = None]
  /\ pc' = [pc EXCEPT ![r] = "idle"]
  /\ UNCHANGED <<config, now, authVars, req, body, tokret, get, resp>>

NextTitle ==
  ArriveTitle(SyncWorker) \/ ProcessTitle(SyncWorker) \/ FinishTitle(SyncWorker)

SpecTitle == InitTitle /\ [][NextTitle]_vars

\* the words of a title once every replacement character is a space
WordsAfterReplacement(title) ==
  IF title = None THEN <<>>
  ELSE Words([i \in 1..Len(title.v) |->
                IF title.v[i] \in config.URL_REPLACE_CHARS THEN " " ELSE title.v[i]],
             <<>>)

\* C20: what process_title_for_url returns has none of the replacement
\* characters, no leading, trailing or repeated space, at most 20 words, and
\* its words are the first (up to 20) words of the title after replacement.
C20_NormalizedTitle ==
  \A r \in Workers :
    pc[r] = "titled" =>
      LET out == val[r].v
          ws == WordsAfterReplacement(call[r].title)
          kept == IF Len(ws) > 20 THEN SubSeq(ws, 1, 20) ELSE ws
      IN /\ \A i \in 1..Len(out) : out[i] \notin config.URL_REPLACE_CHARS
         /\ out # <<>> => (out[1] # " " /\ out[Len(out)] # " ")
         /\ \A i \in 1..(Len(out) - 1) : ~(out[i] = " " /\ out[i + 1] = " ")
         /\ Len(Words(out, <<>>)) <= 20
         /\ Words(out, <<>>) = kept

\* C20 witness: a title of 21 words with dashes came back as its first 20 words
C20_Witness ==
  \E r \in Workers :
    /\ pc[r] = "titled" /\ call[r].title # None
    /\ \E i \in 1..Len(call[r].title.v) : call[r].title.v[i] = "-"
    /\ Len(WordsAfterReplacement(call[r].title)) = 21
    /\ Len(Words(val[r].v, <<>>)) = 20

\* ------------------------------------------------- quoted phrases and reuse

\* C21: the double-quoted phrases of an accepted query are the double-quoted
\* phrases of its sanitized form, the same phrases with the same contents in
\* the same order, and the first of them stands after the same words.
C21_QuotedPhrasesKept ==
  \A r \in Workers :
    (pc[r] = "get_token" /\ req[r] # None /\ req[r].q # None) =>
      LET q == call[r].query.v
          \* the query with its percent escapes decoded, nothing else changed
          raw == [i \in 1..Len(q) |-> IF q[i] = "%21" THEN "!" ELSE q[i]]
          out == val[r].cleaned_query
          \* what stands before the first double-quoted phrase of a text
          TextBefore(s) == SubSeq(s, 1, QuotedSpans(s, 1)[1][1] - 1)
      IN /\ FindQuoted(out) = FindQuoted(raw)
         /\ (FindQuoted(raw) # <<>> /\ FindQuoted(out) # <<>>) =>
              Words(TextBefore(out), <<>>) =
                Words(CleanChars(ReplacePlus(TextBefore(raw))), <<>>)

\* the symbols of the allow-set texts: word characters, the two kinds of
\* whitespace, and the punctuation the cleaning pattern names
CleanTexts(n) ==
  UNION {[1..k -> {"a", "W", " ", "\t", "+", "-", "'", "@", ".", "/"}] : k \in 0..n}

\* sanitize_query is called on a text of allow-set characters
ArriveClean(r) ==
  /\ pc[r] = "idle"
  /\ \E q \in CleanTexts(MaxCleanLen) : call' = [call EXCEPT ![r] = [query |-> q]]
  /\ pc' = [pc EXCEPT ![r] = "sanitize_query"]
  /\ UNCHANGED <<config, now, authVars, req, val, body, tokret, get, resp>>

\* the call returns the cleaned text or raises
SanitizeClean(r) ==
  /\ pc[r] = "sanitize_query"
  /\ val' = [val EXCEPT ![r] = sanitize_query(call[r].query)]
  /\ pc' = [pc EXCEPT ![r] = "sanitized"]
  /\ UNCHANGED <<config, now, authVars, req, call, body, tokret, get, resp>>

\* the caller has its answer
FinishClean(r) ==
  /\ pc[r] = "sanitized"
  /\ call' = [call EXCEPT ![r] = None]
  /\ val' = [val EXCEPT ![r] = None]
  /\ pc' = [pc EXCEPT ![r] = "idle"]
  /\ UNCHANGED <<config, now, authVars, req, body, tokret, get, resp>>

NextClean ==
  ArriveClean(SyncWorker) \/ SanitizeClean(SyncWorker) \/ FinishClean(SyncWorker)

SpecClean == InitAuth /\ [][NextClean]_vars

\* C22: a non-empty text of at most 500 allow-set characters without '+',
\* whose only whitespace is single spaces between words, is returned as it
\* is; and whatever sanitize_query returns for a text of allow-set
\* characters, sanitize_query returns it unchanged.
C22_CleanTextKept ==
  \A r \in Workers :
    pc[r] = "sanitized" =>
      LET text == call[r].query
      IN /\ ( /\ text # <<>> /\ PyLen(text) <= 500
              /\ ~IsSpace(text[1]) /\ ~IsSpace(text[Len(text)])
              /\ \A i \in 1..(Len(text) - 1) : ~(IsSpace(text[i]) /\ IsSpace(text[i + 1]))
              /\ \A i \in 1..Len(text) : text[i] \notin {"+", "\t"} )
            => val[r] = Ok(text)
         /\ val[r].ok => sanitize_query(val[r].value) = val[r]

\* C22 witness: a text with punctuation of the allow-set and a space inside
\* came back as it was
C22_Witness ==
  \E r \in Workers :
    /\ pc[r] = "sanitized" /\ val[r].ok
    /\ val[r].value = call[r].query
    /\ \E i, j \in 1..Len(call[r].query) :
         call[r].query[i] = "@" /\ call[r].query[j] = " "

\* C22 as stated: every accepted trimmed text of allow-set characters, '+'
\* included, is returned as it is
C22_AsStated ==
  \A r \in Workers :
    (pc[r] = "sanitized" /\ val[r].ok) =>
      LET text == call[r].query
      IN ( /\ ~IsSpace(text[1]) /\ ~IsSpace(text[Len(text)])
           /\ \A i \in 1..(Len(text) - 1) : ~(IsSpace(text[i]) /\ IsSpace(text[i + 1])) )
         => val[r] = Ok(text)

\* ------------------------------------------------------ failures and stages

\* C23: a response of status 500 is one of the two fixed bodies, whatever was
\* raised (a KeyError of get_token, an AttributeError of the configuration,
\* a ValueError of response.json()); and an exception of get_token, or of the
\* library lookup on a half-loaded configuration, is answered 500.
C23_GenericFailure ==
  \A r \in Workers :
    (Done(r) /\ req[r] # None) =>
      /\ resp[r].status = 500 =>
           resp[r] \in {ErrorResponse("An unexpected error occurred", 500),
                        ErrorResponse("Internal server error", 500)}
      /\ (tokret[r] # None /\ tokret[r].kind = "raised") => resp[r].status = 500
      /\ (get[r] # None /\ get[r].outcome = "badjson") =>
           resp[r] \in {ErrorResponse("An unexpected error occurred", 500),
                        ErrorResponse("Search request failed", 503)}

\* C23 witness: get_token raised inside a request, which was answered 500
C23_Witness ==
  \E r \in Workers :
    /\ Done(r) /\ req[r] # None
    /\ tokret[r] # None /\ tokret[r].kind = "raised"
    /\ resp[r] = ErrorResponse("An unexpected error occurred", 500)

\* C24: a request is past validation only if sort, query and pagination all
\* passed; a search GET was sent only for a request whose get_token returned a
\* token that has an access_token, and carries that token; a request answered
\* 400 called neither the token endpoint nor the search endpoint.
C24_StagesInOrder ==
  \A r \in Workers :
    req[r] # None =>
      /\ (pc[r] \in {"get_token", "post", "set_expiry", "tok_ret", "upstream"}
            \/ tokret[r] # None \/ get[r] # None) =>
           (call[r] # None /\ sw_validate(call[r], config).ok)
      /\ get[r] # None =>
           /\ tokret[r] # None /\ tokret[r].kind # "raised"
           /\ tokret[r].value # None /\ tokret[r].value.access_token
           /\ get[r].bearer = tokret[r].value.id
      /\ (Done(r) /\ resp[r].status = 400) => (tokret[r] = None /\ get[r] = None)

\* C24 witness: a request went through every stage: it was validated, got a
\* fresh token from the token endpoint, sent the GET and was answered 200
C24_Witness ==
  \E r \in Workers :
    /\ Done(r) /\ req[r] # None /\ resp[r].status = 200
    /\ tokret[r] # None /\ tokret[r].kind = "fresh"
    /\ get[r] # None /\ get[r].outcome = "ok"

\* ------------------------------------------------------ the retrying session

\* Retry(status_forcelist=[429, 500, 502, 503, 504])
STATUS_FORCELIST == {"429", "500", "502", "503", "504"}

\* what one attempt to send a request can meet: a status, a refused
\* connection, a connect timeout, a read timeout
Answers ==
  {"200", "404"} \cup STATUS_FORCELIST \cup {"refused", "connect_timeout", "read_timeout"}

\* the adapter's retry rule for one failed attempt: a connection that was not
\* made is retried for every method; a read timeout and a status of the
\* forcelist only for the methods the strategy allows.  Retry(...) is built
\* without allowed_methods: the library's default set, which has no POST
IsRetry(method, answer) ==
  LET allowed_methods == {"GET", "HEAD", "PUT", "DELETE", "OPTIONS", "TRACE"}
  IN CASE answer \in {"refused", "connect_timeout"} -> TRUE
       [] answer = "read_timeout" -> method \in allowed_methods
       [] answer \in STATUS_FORCELIST -> method \in allowed_methods
       [] OTHER -> FALSE

\* what the caller of session.get / session.post followed by
\* raise_for_status() gets once no further attempt is made
SendOutcome(method, answer) ==
  CASE answer = "200" -> [ok |-> TRUE]
    [] answer = "connect_timeout" -> [ok |-> FALSE, kind |-> "Timeout"]
    [] answer = "read_timeout" /\ ~IsRetry(method, answer) ->
         [ok |-> FALSE, kind |-> "Timeout"]
    [] OTHER -> [ok |-> FALSE, kind |-> "RequestException"]

\* one of the two calls made on the session enters it, no attempt made yet:
\* the token POST of get_token or the search GET of search_worldcat
ArriveSend(r) ==
  /\ pc[r] = "idle"
  /\ \E c \in {[caller |-> "get_token", method |-> "POST"],
               [caller |-> "search_worldcat", method |-> "GET"]} :
       call' = [call EXCEPT ![r] =
                  [caller |-> c.caller, method |-> c.method, attempts |-> <<>>]]
  /\ pc' = [pc EXCEPT ![r] = "send"]
  /\ UNCHANGED <<config, now, authVars, req, val, body, tokret, get, resp>>

\* one attempt is made.  If it fails in a way the adapter retries and
\* retries are left, another follows; else it was the last and the caller
\* gets the outcome
Attempt(r) ==
  /\ pc[r] = "send"
  /\ \E a \in Answers :
       /\ call' = [call EXCEPT ![r].attempts = Append(@, a)]
       /\ IF IsRetry(call[r].method, a) /\ Len(call[r].attempts) < RETRY_TOTAL
          THEN UNCHANGED <<pc, val>>
          ELSE /\ val' = [val EXCEPT ![r] = SendOutcome(call[r].method, a)]
               /\ pc' = [pc EXCEPT ![r] = "sent"]
  /\ UNCHANGED <<config, now, authVars, req, body, tokret, get, resp>>

\* the caller has its answer
FinishSend(r) ==
  /\ pc[r] = "sent"
  /\ call' = [call EXCEPT ![r] = None]
  /\ val' = [val EXCEPT ![r] = None]
  /\ pc' = [pc EXCEPT ![r] = "idle"]
  /\ UNCHANGED <<config, now, authVars, req, body, tokret, get, resp>>

NextSend ==
  \/ ArriveSend(SyncWorker)
  \/ Attempt(SyncWorker)
  \/ FinishSend(SyncWorker)

SpecSend == InitAuth /\ [][NextSend]_vars

\* C25: the search GET is attempted exactly once, whatever it meets, and a
\* timeout or an error status on it fails the call at once.
C25_SearchSentOnce ==
  \A r \in Workers :
    (pc[r] \in {"send", "sent"} /\ call[r].method = "GET") =>
      /\ Len(call[r].attempts) <= 1
      /\ pc[r] = "sent" => Len(call[r].attempts) = 1

\* C26: the token POST is attempted at most 4 times; every attempt that was
\* followed by another got a status of the forcelist, and the refresh ends on
\* a status of the forcelist only after the fourth attempt.
C26_TokenRetries ==
  \A r \in Workers :
    (pc[r] \in {"send", "sent"} /\ call[r].method = "POST") =>
      LET tried == call[r].attempts
      IN /\ Len(tried) <= RETRY_TOTAL + 1
         /\ \A i \in 1..(Len(tried) - 1) : tried[i] \in STATUS_FORCELIST
         /\ (pc[r] = "sent" /\ tried[Len(tried)] \in STATUS_FORCELIST) =>
              Len(tried) = RETRY_TOTAL + 1

\* ------------------------------------------------------------ the token cache

\* C27: once a get_token call has returned a fresh token and the cache holds
\* a token get_valid_token can give out, it holds one ever after: no step
\* takes the usable credential away.
C27_CredentialHeld ==
  [][(lastRefresh # None /\ get_valid_token(_token) # None)
       => get_valid_token(_token') # None]_vars

\* C28: whenever a get_token call is over, returned or raised, the cached
\* token and the cached expiry belong together: both are still unset, or the
\* expiry is the one computed from the expires_in of the cached token at the
\* refresh that stored it.
C28_TokenAndExpiryTogether ==
  \A r \in Workers :
    pc[r] = "tok_ret" =>
      \/ _token = None /\ _token_expiry = None
      \/ /\ _token # None /\ _token_expiry # None /\ lastRefresh # None
         /\ _token.expires_in # None
         /\ lastRefresh.expires_in = _token.expires_in.v
         /\ _token_expiry = IntV(ExpiryFor(lastRefresh.t, _token.expires_in.v))

====
